---- MODULE Spec2Model ----
(***************************************************************************)
(* Spaced-repetition engine of words_spelling (src-tauri): the segments    *)
(* and word_mastery tables of DatabaseManager, save_segments (resegment),  *)
(* update_word_mastery (report_outcome), get_scheduled_words               *)
(* (plan_session) and the Mutex<DatabaseManager> the tauri commands take.  *)
(*                                                                         *)
(* Timestamps are whole days since an epoch: "%Y-%m-%d %H:%M:%S" strings   *)
(* of equal width compare as the instants they denote.  ease_factor is in  *)
(* tenths (2.5 is 25).                                                     *)
(***************************************************************************)
EXTENDS Integers, Sequences, FiniteSets, TLC

\* ---------------------------------------------------------------- bounds
MaxId == 3
MaxTime == 1
MaxOps == 3
MaxDeepOps == 9

\* ---------------------------------------------------------------- inputs
Users == {"default", "alice"}
Contents == {"a", "b"}
Kinds == {"word", "sentence"}
ArticleIds == {1}
SegmentIds == 1..MaxId
NewSegmentLists == {<<>>, <<"a">>, <<"b">>, <<"a", "a">>, <<"a", "b">>, <<"b", "a">>}

None == [none |-> TRUE]

Min(a, b) == IF a < b THEN a ELSE b
Max(a, b) == IF a > b THEN a ELSE b

VARIABLES
    foreign_keys,   \* whether the linked SQLite enforces FOREIGN KEY clauses
    articles,       \* articles table: the set of ids
    segments,       \* segments table: set of rows
    seg_seq,        \* AUTOINCREMENT counter of segments.id
    word_mastery,   \* word_mastery table: rows in rowid order
    now,            \* chrono::Utc::now(), in days
    ret,            \* what the last DatabaseManager call returned
    ops,            \* number of calls made so far
    lock,           \* owner of Mutex<DatabaseManager>: 0 or a thread
    tx,             \* image to roll back to while a transaction is open
    th              \* per-thread command frame

vars == <<foreign_keys, articles, segments, seg_seq, word_mastery, now, ret, ops, lock, tx, th>>
db == <<articles, segments, seg_seq, word_mastery>>
conc == <<lock, tx, th>>

\* ---------------------------------------------------------------- schema
\* SegmentRow for an INSERT that counts order_index from 1
SegmentRow_one_based(id, article_id, segment_type, content, order_index) ==
    [id |-> id, article_id |-> article_id, segment_type |-> segment_type,
     content |-> content, order_index |-> order_index + 1]

SegmentRow(id, article_id, segment_type, content, order_index) ==
    [id |-> id, article_id |-> article_id, segment_type |-> segment_type,
     content |-> content, order_index |-> order_index]

MasteryRow(user_name, segment_id, segment_content, segment_type, mastery_level, ease_factor, interval_days, next_review_at, last_review_at, review_count) ==
    [user_name |-> user_name, segment_id |-> segment_id,
     segment_content |-> segment_content, segment_type |-> segment_type,
     mastery_level |-> mastery_level, ease_factor |-> ease_factor,
     interval_days |-> interval_days, next_review_at |-> next_review_at,
     last_review_at |-> last_review_at, review_count |-> review_count]

\* segment_ids_of without the segment_type condition
segment_ids_of_any_kind(segs, article_id, segment_type) ==
    {s.id : s \in {r \in segs : r.article_id = article_id}}

\* SELECT id FROM segments WHERE article_id = ? AND segment_type = ?
segment_ids_of(segs, article_id, segment_type) ==
    {s.id : s \in {r \in segs : r.article_id = article_id /\ r.segment_type = segment_type}}

\* index in 1..Len(rows) of the row UNIQUE(user_name, segment_id) names, or 0
mastery_index(rows, user_name, segment_id) ==
    LET hits == {i \in 1..Len(rows) : rows[i].user_name = user_name
                                      /\ rows[i].segment_id = segment_id}
    IN IF hits = {} THEN 0 ELSE CHOOSE i \in hits : \A j \in hits : i <= j

\* ON DELETE CASCADE from segments to word_mastery, when enforced
cascade(rows, fk, deleted_ids) ==
    IF fk THEN SelectSeq(rows, LAMBDA m : m.segment_id \notin deleted_ids) ELSE rows

Ret(op, ok, args, val) == [op |-> op, ok |-> ok, args |-> args, val |-> val]

\* ---------------------------------------------------------------- SM-2
\* new_ml without the ceiling of 5
new_ml_unclamped(ml, correct) == IF correct THEN ml + 1 ELSE Max(ml - 1, 0)

new_ml(ml, correct) == IF correct THEN Min(ml + 1, 5) ELSE Max(ml - 1, 0)

\* new_ef without the clamps
new_ef_unclamped(ef, correct) == IF correct THEN ef + 1 ELSE ef - 2

new_ef(ef, correct) == IF correct THEN Max(Min(ef + 1, 30), 13) ELSE Max(ef - 2, 13)

\* new_iv doubling the interval it held instead of reading the table
new_iv_doubling(ml, iv, correct) == IF correct THEN Max(2 * iv, 1) ELSE 0

new_iv(ml, iv, correct) ==
    IF correct
    THEN CASE ml = 0 -> 1
           [] ml = 1 -> 1
           [] ml = 2 -> 3
           [] ml = 3 -> 7
           [] ml = 4 -> 14
           [] ml = 5 -> 30
           [] OTHER -> iv
    ELSE 0

\* first_report that counts a wrong first answer as a review
first_report_counted(correct) ==
    IF correct
    THEN [mastery_level |-> 1, ease_factor |-> 25, interval_days |-> 1, review_count |-> 1]
    ELSE [mastery_level |-> 0, ease_factor |-> 25, interval_days |-> 0, review_count |-> 1]

first_report(correct) ==
    IF correct
    THEN [mastery_level |-> 1, ease_factor |-> 25, interval_days |-> 1, review_count |-> 1]
    ELSE [mastery_level |-> 0, ease_factor |-> 25, interval_days |-> 0, review_count |-> 0]

\* the (mastery_level, ease_factor, interval_days, review_count) tuple computed
\* from `existing` (a row, or None)
sm2(existing, correct) ==
    IF existing # None
    THEN [mastery_level |-> new_ml(existing.mastery_level, correct),
          ease_factor |-> new_ef(existing.ease_factor, correct),
          interval_days |-> new_iv(new_ml(existing.mastery_level, correct),
                                   existing.interval_days, correct),
          review_count |-> IF correct THEN existing.review_count + 1
                           ELSE existing.review_count]
    ELSE first_report(correct)

\* next_review that puts off a failed word to the next day
next_review_tomorrow(t, interval_days) == IF interval_days = 0 THEN t + 1 ELSE t + interval_days

next_review(t, interval_days) == IF interval_days = 0 THEN t ELSE t + interval_days

\* ---------------------------------------------------------------- get_scheduled_words
\* "2999-12-31 23:59:59", later than every review time
future_time == 1000000

ScheduledWord(segment_id, content, segment_type, mastery_level, is_new, next_review_at) ==
    [segment_id |-> segment_id, content |-> content, segment_type |-> segment_type,
     mastery_level |-> mastery_level, is_new |-> is_new, next_review_at |-> next_review_at]

\* by_id for a SELECT whose row order turns around once a plan has been returned
by_id_unstable(rowset) ==
    LET F[S \in SUBSET rowset] ==
            IF S = {} THEN <<>>
            ELSE LET m == CHOOSE x \in S : \A y \in S :
                              IF ret.op = "get_scheduled_words" THEN x.id <= y.id ELSE y.id <= x.id
                 IN Append(F[S \ {m}], m)
    IN F[rowset]

\* the rows of a set of segments rows, in rowid order: the SELECT has no
\* ORDER BY and walks idx_segments_type or the UNIQUE index; save_segments
\* numbers a list in one pass, so both walks give the order of order_index
by_id(rowset) ==
    LET F[S \in SUBSET rowset] ==
            IF S = {} THEN <<>>
            ELSE LET m == CHOOSE x \in S : \A y \in S : y.id <= x.id
                 IN Append(F[S \ {m}], m)
    IN F[rowset]

\* all_segments_of without the segment_type condition
all_segments_of_any_kind(segs, article_id, segment_type) ==
    by_id({r \in segs : r.article_id = article_id})

\* step 1: SELECT id, content, segment_type FROM segments WHERE ...
all_segments_of(segs, article_id, segment_type) ==
    by_id({r \in segs : r.article_id = article_id /\ r.segment_type = segment_type})

\* mastery_map_of without the user_name condition
mastery_map_of_any_user(rows, segs, user_name, article_id, segment_type) ==
    LET ids == segment_ids_of(segs, article_id, segment_type)
        first(id) == CHOOSE i \in 1..Len(rows) :
                        /\ rows[i].segment_id = id
                        /\ \A j \in 1..Len(rows) : rows[j].segment_id = id => i <= j
        keys == {id \in ids : \E i \in 1..Len(rows) : rows[i].segment_id = id}
    IN [id \in keys |-> rows[first(id)]]

\* step 2: the HashMap segment_id -> row of the user's rows on these segments
mastery_map_of(rows, segs, user_name, article_id, segment_type) ==
    LET ids == segment_ids_of(segs, article_id, segment_type)
        keys == {id \in ids : mastery_index(rows, user_name, id) # 0}
    IN [id \in keys |-> rows[mastery_index(rows, user_name, id)]]

\* review_words_of without the comparison of next_review_at with now
review_words_of_any_time(all_segments, mastery_map, t) ==
    LET hit == SelectSeq(all_segments, LAMBDA s : s.id \in DOMAIN mastery_map)
    IN [i \in 1..Len(hit) |->
           ScheduledWord(hit[i].id, hit[i].content, hit[i].segment_type,
                         mastery_map[hit[i].id].mastery_level, FALSE,
                         mastery_map[hit[i].id].next_review_at)]

\* step 3: the due words, in the order of all_segments
review_words_of(all_segments, mastery_map, t) ==
    LET due(s) == /\ s.id \in DOMAIN mastery_map
                  /\ mastery_map[s.id].next_review_at <= t
        hit == SelectSeq(all_segments, due)
    IN [i \in 1..Len(hit) |->
           ScheduledWord(hit[i].id, hit[i].content, hit[i].segment_type,
                         mastery_map[hit[i].id].mastery_level, FALSE,
                         mastery_map[hit[i].id].next_review_at)]

\* new_words_of collecting the words last to first
new_words_of_reversed(all_segments, mastery_map) ==
    LET fresh(s) == s.id \notin DOMAIN mastery_map
        hit == SelectSeq(all_segments, fresh)
    IN [i \in 1..Len(hit) |->
           ScheduledWord(hit[Len(hit) + 1 - i].id, hit[Len(hit) + 1 - i].content,
                         hit[Len(hit) + 1 - i].segment_type, 0, TRUE, future_time)]

\* step 3: the words without a row, in the order of all_segments
new_words_of(all_segments, mastery_map) ==
    LET fresh(s) == s.id \notin DOMAIN mastery_map
        hit == SelectSeq(all_segments, fresh)
    IN [i \in 1..Len(hit) |->
           ScheduledWord(hit[i].id, hit[i].content, hit[i].segment_type, 0, TRUE, future_time)]

\* the first n elements; `limit as usize` of a negative limit exceeds every length
take(sq, n) == IF n < 0 \/ n >= Len(sq) THEN sq ELSE SubSeq(sq, 1, n)

\* merge_words that never fills up with new words
merge_words_no_fill(review_words, new_words, limit) == take(review_words, limit)

\* step 4: review words first, then new words up to limit
merge_words(review_words, new_words, limit) ==
    IF limit < 0 \/ Len(review_words) < limit
    THEN review_words \o take(new_words, IF limit < 0 THEN limit ELSE limit - Len(review_words))
    ELSE take(review_words, limit)

\* the comparator of result.sort_by: a sorts strictly before b
word_before(a, b) ==
    IF a.is_new # b.is_new THEN ~a.is_new
    ELSE IF a.next_review_at # b.next_review_at THEN a.next_review_at < b.next_review_at
    ELSE a.mastery_level < b.mastery_level

\* sort_words leaving the merged order as it is
sort_words_unsorted(words) == words

\* sort_by is stable: an element goes behind everything not after it
sort_words(words) ==
    LET ins(sorted, x) ==
            LET later == {i \in 1..Len(sorted) : word_before(x, sorted[i])}
                at == IF later = {} THEN Len(sorted) + 1
                      ELSE CHOOSE i \in later : \A j \in later : i <= j
            IN SubSeq(sorted, 1, at - 1) \o <<x>> \o SubSeq(sorted, at, Len(sorted))
        F[i \in 0..Len(words)] == IF i = 0 THEN <<>> ELSE ins(F[i - 1], words[i])
    IN F[Len(words)]

\* scheduled_words counting the two sets as they were before the merge
scheduled_words_counts_before(all_segments, mastery_map, limit, t) ==
    LET result == IF all_segments = <<>> THEN <<>>
                  ELSE sort_words(merge_words(review_words_of(all_segments, mastery_map, t),
                                              new_words_of(all_segments, mastery_map), limit))
    IN [words |-> result,
        new_words_count |-> Len(new_words_of(all_segments, mastery_map)),
        review_words_count |-> Len(review_words_of(all_segments, mastery_map, t))]

\* the ScheduledWordsResponse
scheduled_words(all_segments, mastery_map, limit, t) ==
    LET result == IF all_segments = <<>> THEN <<>>
                  ELSE sort_words(merge_words(review_words_of(all_segments, mastery_map, t),
                                              new_words_of(all_segments, mastery_map), limit))
    IN [words |-> result,
        new_words_count |-> Cardinality({i \in 1..Len(result) : result[i].is_new}),
        review_words_count |-> Cardinality({i \in 1..Len(result) : ~result[i].is_new})]

get_scheduled_words(user_name, article_id, segment_type, limit) ==
    LET all_segments == all_segments_of(segments, article_id, segment_type)
        mastery_map == mastery_map_of(word_mastery, segments, user_name, article_id, segment_type)
        args == [user_name |-> user_name, article_id |-> article_id,
                 segment_type |-> segment_type, limit |-> limit, now |-> now]
    IN /\ ret' = Ret("get_scheduled_words", TRUE, args,
                     scheduled_words(all_segments, mastery_map, limit, now))
       /\ UNCHANGED <<foreign_keys, db, now, conc>>

\* ---------------------------------------------------------------- get_word_masteries
\* a user name with an apostrophe: format!() splices it into the SQL text unescaped
QuotedNames == {"o'neil"}

\* ORDER BY mastery_level ASC: rows of one level stay in rowid order
by_level(rows) ==
    LET levels == {rows[i].mastery_level : i \in 1..Len(rows)}
        F[S \in SUBSET levels] ==
            IF S = {} THEN <<>>
            ELSE LET m == CHOOSE x \in S : \A y \in S : x <= y
                 IN SelectSeq(rows, LAMBDA r : r.mastery_level = m) \o F[S \ {m}]
    IN F[levels]

\* segment_type: Option<&str> is None
AnyKind == "any"

\* the rows the SELECT of get_word_masteries returns
masteries_of(rows, user_name, segment_type) ==
    by_level(SelectSeq(rows, LAMBDA r : /\ r.user_name = user_name
                                        /\ segment_type # AnyKind => r.segment_type = segment_type))

\* get_word_masteries that stamps the rows it lists as reviewed now
get_word_masteries_touching(user_name, segment_type) ==
    /\ word_mastery' = [i \in 1..Len(word_mastery) |->
                            IF word_mastery[i].user_name = user_name
                            THEN [word_mastery[i] EXCEPT !.last_review_at = now]
                            ELSE word_mastery[i]]
    /\ ret' = Ret("get_word_masteries", TRUE,
                  [user_name |-> user_name, segment_type |-> segment_type],
                  masteries_of(word_mastery, user_name, segment_type))
    /\ UNCHANGED <<foreign_keys, articles, segments, seg_seq, now, conc>>

get_word_masteries(user_name, segment_type) ==
    LET failed == user_name \in QuotedNames
        args == [user_name |-> user_name, segment_type |-> segment_type]
    IN /\ ret' = Ret("get_word_masteries", ~failed, args,
                     IF failed THEN None ELSE masteries_of(word_mastery, user_name, segment_type))
       /\ UNCHANGED <<foreign_keys, db, now, conc>>

\* ---------------------------------------------------------------- get_segments
\* ORDER BY order_index
by_order_index(rowset) ==
    LET F[S \in SUBSET rowset] ==
            IF S = {} THEN <<>>
            ELSE LET m == CHOOSE x \in S : \A y \in S : y.order_index <= x.order_index
                 IN Append(F[S \ {m}], m)
    IN F[rowset]

\* SELECT id, article_id, segment_type, content, order_index FROM segments WHERE ... ORDER BY order_index
get_segments_of(segs, article_id, segment_type) ==
    by_order_index({r \in segs : r.article_id = article_id /\ r.segment_type = segment_type})

\* ---------------------------------------------------------------- storage faults
NoFault == [step |-> "none", at |-> 0]

\* the steps of save_segments whose error `?` returns
SaveHardSteps == {"begin", "prepare", "delete", "insert", "restore", "commit"}

\* ---------------------------------------------------------------- state after construction
Init ==
    /\ foreign_keys \in BOOLEAN
    /\ articles = {}
    /\ segments = {}
    /\ seg_seq = 0
    /\ word_mastery = <<>>
    /\ now = 0
    /\ ret = Ret("new", TRUE, None, None)
    /\ ops = 0
    /\ lock = 0
    /\ tx = None
    /\ th = [t \in {1, 2} |-> [pc |-> "idle", op |-> "none", args |-> None, loc |-> None]]

\* the clock moves on between calls
Tick ==
    /\ now < MaxTime
    /\ now' = now + 1
    /\ UNCHANGED <<foreign_keys, db, ret, ops, conc>>

\* INSERT INTO articles: ids count up from 1
create_article ==
    /\ articles' = articles \cup {Cardinality(articles) + 1}
    /\ ret' = Ret("create_article", TRUE, None, Cardinality(articles) + 1)
    /\ UNCHANGED <<foreign_keys, segments, seg_seq, word_mastery, now, conc>>

\* ---------------------------------------------------------------- update_word_mastery
\* stmt.query_row(...).ok(): a failed read is None, like a missing row
read_existing(rows, user_name, segment_id, fault) ==
    LET i == mastery_index(rows, user_name, segment_id)
    IN IF fault = "read" \/ i = 0 THEN None ELSE rows[i]

\* upsert without the ON CONFLICT clause taking effect: every report adds a row
upsert_append(rows, row) == Append(rows, row)

\* upsert whose conflict target is segment_id alone: the row of any user on the item is replaced
upsert_by_item(rows, row) ==
    LET hits == {i \in 1..Len(rows) : rows[i].segment_id = row.segment_id}
    IN IF hits = {} THEN Append(rows, row)
       ELSE [rows EXCEPT ![CHOOSE i \in hits : \A j \in hits : i <= j] = row]

\* INSERT ... ON CONFLICT(user_name, segment_id) DO UPDATE SET every other column
upsert(rows, row) ==
    LET i == mastery_index(rows, row.user_name, row.segment_id)
    IN IF i = 0 THEN Append(rows, row) ELSE [rows EXCEPT ![i] = row]

\* computed_row that counts the interval back from the time of the report
computed_row_backdated(existing, user_name, segment_id, segment_content, segment_type, correct, t) ==
    LET c == sm2(existing, correct)
    IN MasteryRow(user_name, segment_id, segment_content, segment_type,
                  c.mastery_level, c.ease_factor, c.interval_days,
                  t - c.interval_days, t, c.review_count)

\* the row update_word_mastery computes at time t
computed_row(existing, user_name, segment_id, segment_content, segment_type, correct, t) ==
    LET c == sm2(existing, correct)
    IN MasteryRow(user_name, segment_id, segment_content, segment_type,
                  c.mastery_level, c.ease_factor, c.interval_days,
                  next_review(t, c.interval_days), t, c.review_count)

\* whether the upsert statement is rejected
upsert_rejected(fk, segs, segment_id, fault) ==
    \/ fault \in {"prepare", "write"}
    \/ fk /\ segment_id \notin {s.id : s \in segs}

update_word_mastery(user_name, segment_id, segment_content, segment_type, correct, fault) ==
    LET existing == read_existing(word_mastery, user_name, segment_id, fault)
        row == computed_row(existing, user_name, segment_id, segment_content,
                            segment_type, correct, now)
        failed == upsert_rejected(foreign_keys, segments, segment_id, fault)
        args == [user_name |-> user_name, segment_id |-> segment_id,
                 segment_content |-> segment_content, segment_type |-> segment_type,
                 correct |-> correct, fault |-> fault]
    IN /\ word_mastery' = IF failed THEN word_mastery ELSE upsert(word_mastery, row)
       /\ ret' = Ret("update_word_mastery", ~failed, args, IF failed THEN None ELSE row)
       /\ UNCHANGED <<foreign_keys, articles, segments, seg_seq, now, conc>>

\* ---------------------------------------------------------------- save_segments
\* step 1: the snapshot, in rowid order; a row whose read fails ends the
\* iteration and is dropped by filter_map(|r| r.ok())
old_mastery(rows, segs, article_id, segment_type, fault) ==
    LET ids == segment_ids_of(segs, article_id, segment_type)
        hit == SelectSeq(rows, LAMBDA m : m.segment_id \in ids)
        all == [i \in 1..Len(hit) |->
                   [segment_content |-> hit[i].segment_content,
                    mastery_level |-> hit[i].mastery_level,
                    ease_factor |-> hit[i].ease_factor,
                    interval_days |-> hit[i].interval_days,
                    next_review_at |-> hit[i].next_review_at,
                    last_review_at |-> hit[i].last_review_at,
                    review_count |-> hit[i].review_count]]
    IN IF fault.step = "row" THEN SubSeq(all, 1, Min(fault.at, Len(all))) ELSE all

\* find_old taking the last entry, as collecting the snapshot into a map by content would
find_old_last(old, content) ==
    LET hits == {i \in 1..Len(old) : old[i].segment_content = content}
    IN IF hits = {} THEN 0 ELSE CHOOSE i \in hits : \A j \in hits : j <= i

\* old_mastery.iter().find(|(content, ...)| content == segment): index or 0
find_old(old, content) ==
    LET hits == {i \in 1..Len(old) : old[i].segment_content = content}
    IN IF hits = {} THEN 0 ELSE CHOOSE i \in hits : \A j \in hits : i <= j

\* restored_row with the review history reset instead of copied
restored_row_reset(new_segment_id, segment, segment_type, o) ==
    MasteryRow("default", new_segment_id, segment, segment_type,
               o.mastery_level, o.ease_factor, 0, o.last_review_at, o.last_review_at, 0)

\* step 4: the row re-inserted for a new segment from its snapshot entry
restored_row(new_segment_id, segment, segment_type, o) ==
    MasteryRow("default", new_segment_id, segment, segment_type,
               o.mastery_level, o.ease_factor, o.interval_days,
               o.next_review_at, o.last_review_at, o.review_count)

\* step 4: the rows re-inserted, in the order of the new segments
restore_rows(new_segments, seq0, segment_type, old) ==
    LET F[i \in 0..Len(new_segments)] ==
            IF i = 0 THEN <<>>
            ELSE LET k == find_old(old, new_segments[i])
                 IN IF k = 0 THEN F[i - 1]
                    ELSE Append(F[i - 1],
                                restored_row(seq0 + i, new_segments[i], segment_type, old[k]))
    IN F[Len(new_segments)]

\* last_id of an id column without AUTOINCREMENT: the largest rowid in the table
last_id_max_rowid(seq, segs) ==
    IF segs = {} THEN 0 ELSE CHOOSE n \in {s.id : s \in segs} : \A s \in segs : s.id <= n

\* id INTEGER PRIMARY KEY AUTOINCREMENT: the next id follows the largest id
\* ever given out, which sqlite_sequence keeps
last_id(seq, segs) == seq

save_segments(article_id, segment_type, new_segments, fault) ==
    LET old_ids == segment_ids_of(segments, article_id, segment_type)
        old == old_mastery(word_mastery, segments, article_id, segment_type, fault)
        segments1 == {s \in segments : s.id \notin old_ids}
        mastery1 == cascade(word_mastery, foreign_keys, old_ids)
        n == Len(new_segments)
        seq0 == last_id(seg_seq, segments1)
        inserted == {SegmentRow(seq0 + i, article_id, segment_type, new_segments[i], i - 1)
                        : i \in 1..n}
        restored == restore_rows(new_segments, seq0, segment_type, old)
        insert_err == n > 0 /\ foreign_keys /\ article_id \notin articles
        restore_err == \E i \in 1..Len(restored) :
                          mastery_index(mastery1, "default", restored[i].segment_id) # 0
        failed == \/ fault.step \in SaveHardSteps
                  \/ insert_err
                  \/ restore_err
        args == [article_id |-> article_id, segment_type |-> segment_type,
                 segments |-> new_segments, fault |-> fault]
    IN /\ segments' = IF failed THEN segments ELSE segments1 \cup inserted
       /\ seg_seq' = IF failed THEN seg_seq ELSE seq0 + n
       /\ word_mastery' = IF failed THEN word_mastery ELSE mastery1 \o restored
       /\ ret' = Ret("save_segments", ~failed, args, None)
       /\ UNCHANGED <<foreign_keys, articles, now, conc>>

\* ---------------------------------------------------------------- specification
Call == ops < MaxOps /\ ops' = ops + 1

Next ==
    \/ Tick
    \/ Cardinality(articles) + 1 \in ArticleIds /\ UNCHANGED ops /\ create_article
    \/ \E a \in ArticleIds, k \in Kinds, segs \in NewSegmentLists :
          seg_seq + Len(segs) <= MaxId /\ Call /\ save_segments(a, k, segs, NoFault)
    \/ \E s \in segments, u \in Users, ok \in BOOLEAN :
          Call /\ update_word_mastery(u, s.id, s.content, s.segment_type, ok, "none")

Spec == Init /\ [][Next]_vars

\* ---------------------------------------------------------------- one item, long histories
DeepCall == ops < MaxDeepOps /\ ops' = ops + 1

NextDeep ==
    \/ Tick
    \/ Cardinality(articles) + 1 \in ArticleIds /\ UNCHANGED ops /\ create_article
    \/ seg_seq + 1 <= MaxId /\ DeepCall /\ save_segments(1, "word", <<"a">>, NoFault)
    \/ \E s \in segments, ok \in BOOLEAN :
          DeepCall /\ update_word_mastery("default", s.id, s.content, s.segment_type, ok, "none")

SpecDeep == Init /\ [][NextDeep]_vars

\* ---------------------------------------------------------------- fresh items, correct answers only
NextStreak ==
    \/ Tick
    \/ Cardinality(articles) + 1 \in ArticleIds /\ UNCHANGED ops /\ create_article
    \/ seg_seq = 0 /\ DeepCall /\ save_segments(1, "word", <<"a">>, NoFault)
    \/ \E s \in segments, u \in Users :
          DeepCall /\ update_word_mastery(u, s.id, s.content, s.segment_type, TRUE, "none")

SpecStreak == Init /\ [][NextStreak]_vars

\* ---------------------------------------------------------------- storage failures
\* a row fault names how many snapshot rows were read before the failing one
SaveFaults ==
    {[step |-> st, at |-> 0] : st \in SaveHardSteps \cup {"none"}}
        \cup {[step |-> "row", at |-> k] : k \in 0..(MaxId - 1)}

UpdateFaults == {"none", "prepare", "read", "write"}

\* the faulted statement is one the call executes
fault_applies(fault, article_id, segment_type, new_segments) ==
    LET old == old_mastery(word_mastery, segments, article_id, segment_type, NoFault)
    IN CASE fault.step = "row" -> fault.at < Len(old)
         [] fault.step = "insert" -> Len(new_segments) > 0
         [] fault.step = "restore" ->
                Len(restore_rows(new_segments, seg_seq, segment_type, old)) > 0
         [] OTHER -> TRUE

NextFault ==
    \/ Tick
    \/ Cardinality(articles) + 1 \in ArticleIds /\ UNCHANGED ops /\ create_article
    \/ \E a \in ArticleIds, k \in Kinds, segs \in NewSegmentLists, f \in SaveFaults :
          /\ seg_seq + Len(segs) <= MaxId
          /\ fault_applies(f, a, k, segs)
          /\ Call /\ save_segments(a, k, segs, f)
    \/ \E s \in segments, u \in Users, ok \in BOOLEAN, f \in UpdateFaults :
          Call /\ update_word_mastery(u, s.id, s.content, s.segment_type, ok, f)

SpecFault == Init /\ [][NextFault]_vars

\* ---------------------------------------------------------------- commands under Mutex<DatabaseManager>
Threads == {1, 2}

Idle == [pc |-> "idle", op |-> "none", args |-> None, loc |-> None]

\* a lock that is granted whoever holds it
mutex_always_free(owner) == TRUE

\* std::sync::Mutex::lock grants the guard only while nobody holds it
mutex_free(owner) == owner = 0

\* first statement of each DatabaseManager method
entry(op) ==
    CASE op = "save_segments" -> "ss_begin"
      [] op = "update_word_mastery" -> "uwm_read"
      [] op = "get_scheduled_words" -> "gsw_segments"
      [] op = "get_segments" -> "gs_read"
      [] op = "get_word_masteries" -> "gwm_read"
      [] op = "create_article" -> "ca_insert"

\* the frontend invokes a tauri command on thread t
invoke(t, op, args) ==
    /\ th[t].pc = "idle"
    /\ th' = [th EXCEPT ![t] = [pc |-> "lock", op |-> op, args |-> args, loc |-> None]]
    /\ UNCHANGED <<foreign_keys, db, now, ret, lock, tx>>

\* let db = db.lock()
mutex_lock(t) ==
    /\ th[t].pc = "lock"
    /\ mutex_free(lock)
    /\ lock' = t
    /\ th' = [th EXCEPT ![t].pc = entry(th[t].op)]
    /\ UNCHANGED <<foreign_keys, db, now, ret, tx>>

\* the command returns: its MutexGuard is dropped
return(t, ok, val) ==
    /\ ret' = Ret(th[t].op, ok, th[t].args, val)
    /\ lock' = IF lock = t THEN 0 ELSE lock
    /\ th' = [th EXCEPT ![t] = Idle]

goto(t, pc, loc) == th' = [th EXCEPT ![t].pc = pc, ![t].loc = loc]

\* an Err leaves save_segments: the dropped Transaction rolls back
rollback(t) ==
    /\ segments' = IF tx = None THEN segments ELSE tx.segments
    /\ seg_seq' = IF tx = None THEN seg_seq ELSE tx.seg_seq
    /\ word_mastery' = IF tx = None THEN word_mastery ELSE tx.word_mastery
    /\ tx' = None
    /\ return(t, FALSE, None)
    /\ UNCHANGED <<foreign_keys, articles, now>>

\* let tx = self.conn.transaction()?  and step 1, the snapshot
ss_begin(t) ==
    /\ th[t].pc = "ss_begin"
    /\ IF tx # None
       THEN return(t, FALSE, None) /\ UNCHANGED <<foreign_keys, db, now, tx>>
       ELSE /\ tx' = [segments |-> segments, seg_seq |-> seg_seq, word_mastery |-> word_mastery]
            /\ goto(t, "ss_delete",
                    [old |-> old_mastery(word_mastery, segments, th[t].args.article_id,
                                         th[t].args.segment_type, NoFault),
                     i |-> 1, new_segment_ids |-> <<>>])
            /\ UNCHANGED <<foreign_keys, db, now, ret, lock>>

\* step 2: DELETE FROM segments WHERE article_id = ? AND segment_type = ?
ss_delete(t) ==
    /\ th[t].pc = "ss_delete"
    /\ LET old_ids == segment_ids_of(segments, th[t].args.article_id, th[t].args.segment_type)
       IN /\ segments' = {s \in segments : s.id \notin old_ids}
          /\ word_mastery' = cascade(word_mastery, foreign_keys, old_ids)
    /\ goto(t, "ss_insert", th[t].loc)
    /\ UNCHANGED <<foreign_keys, articles, seg_seq, now, ret, lock, tx>>

\* step 3: one turn of the INSERT INTO segments loop
ss_insert(t) ==
    /\ th[t].pc = "ss_insert"
    /\ LET a == th[t].args
           l == th[t].loc
           taken == \E s \in segments : /\ s.article_id = a.article_id
                                        /\ s.segment_type = a.segment_type
                                        /\ s.order_index = l.i - 1
       IN IF l.i > Len(a.segments)
          THEN /\ goto(t, "ss_restore", [l EXCEPT !.i = 1])
               /\ UNCHANGED <<foreign_keys, db, now, ret, lock, tx>>
          ELSE IF taken \/ (foreign_keys /\ a.article_id \notin articles)
          THEN rollback(t)
          ELSE /\ segments' = segments \cup {SegmentRow(seg_seq + 1, a.article_id,
                                                        a.segment_type, a.segments[l.i], l.i - 1)}
               /\ seg_seq' = seg_seq + 1
               /\ goto(t, "ss_insert",
                       [l EXCEPT !.i = l.i + 1,
                                 !.new_segment_ids = Append(l.new_segment_ids, seg_seq + 1)])
               /\ UNCHANGED <<foreign_keys, articles, word_mastery, now, ret, lock, tx>>

\* step 4: one turn of the restore loop
ss_restore(t) ==
    /\ th[t].pc = "ss_restore"
    /\ LET a == th[t].args
           l == th[t].loc
           k == find_old(l.old, a.segments[l.i])
           row == restored_row(l.new_segment_ids[l.i], a.segments[l.i], a.segment_type, l.old[k])
       IN IF l.i > Len(a.segments)
          THEN /\ goto(t, "ss_commit", l)
               /\ UNCHANGED <<foreign_keys, db, now, ret, lock, tx>>
          ELSE IF k = 0
          THEN /\ goto(t, "ss_restore", [l EXCEPT !.i = l.i + 1])
               /\ UNCHANGED <<foreign_keys, db, now, ret, lock, tx>>
          ELSE IF mastery_index(word_mastery, "default", row.segment_id) # 0
          THEN rollback(t)
          ELSE /\ word_mastery' = Append(word_mastery, row)
               /\ goto(t, "ss_restore", [l EXCEPT !.i = l.i + 1])
               /\ UNCHANGED <<foreign_keys, articles, segments, seg_seq, now, ret, lock, tx>>

\* tx.commit()?
ss_commit(t) ==
    /\ th[t].pc = "ss_commit"
    /\ tx' = None
    /\ return(t, TRUE, None)
    /\ UNCHANGED <<foreign_keys, db, now>>

\* let now = Utc::now() and the read of the existing row
uwm_read(t) ==
    /\ th[t].pc = "uwm_read"
    /\ goto(t, "uwm_write",
            [existing |-> read_existing(word_mastery, th[t].args.user_name,
                                        th[t].args.segment_id, "none"),
             now |-> now])
    /\ UNCHANGED <<foreign_keys, db, now, ret, lock, tx>>

\* the SM-2 computation and the upsert
uwm_write(t) ==
    /\ th[t].pc = "uwm_write"
    /\ LET a == th[t].args
           row == computed_row(th[t].loc.existing, a.user_name, a.segment_id,
                               a.segment_content, a.segment_type, a.correct, th[t].loc.now)
           failed == upsert_rejected(foreign_keys, segments, a.segment_id, "none")
       IN /\ word_mastery' = IF failed THEN word_mastery ELSE upsert(word_mastery, row)
          /\ return(t, ~failed, IF failed THEN None ELSE row)
    /\ UNCHANGED <<foreign_keys, articles, segments, seg_seq, now, tx>>

\* let now = ... and step 1 of get_scheduled_words
gsw_segments(t) ==
    /\ th[t].pc = "gsw_segments"
    /\ LET all_segments == all_segments_of(segments, th[t].args.article_id,
                                           th[t].args.segment_type)
       IN IF all_segments = <<>>
          THEN /\ return(t, TRUE, scheduled_words(<<>>, <<>>, th[t].args.limit, now))
               /\ UNCHANGED <<foreign_keys, db, now, tx>>
          ELSE /\ goto(t, "gsw_mastery", [all_segments |-> all_segments, now |-> now])
               /\ UNCHANGED <<foreign_keys, db, now, ret, lock, tx>>

\* steps 2 to 4 of get_scheduled_words
gsw_mastery(t) ==
    /\ th[t].pc = "gsw_mastery"
    /\ LET a == th[t].args
           mastery_map == mastery_map_of(word_mastery, segments, a.user_name,
                                         a.article_id, a.segment_type)
       IN return(t, TRUE, scheduled_words(th[t].loc.all_segments, mastery_map,
                                          a.limit, th[t].loc.now))
    /\ UNCHANGED <<foreign_keys, db, now, tx>>

\* get_segments: SELECT ... ORDER BY order_index
gs_read(t) ==
    /\ th[t].pc = "gs_read"
    /\ return(t, TRUE, all_segments_of(segments, th[t].args.article_id, th[t].args.segment_type))
    /\ UNCHANGED <<foreign_keys, db, now, tx>>

\* get_word_masteries: the user's rows
gwm_read(t) ==
    /\ th[t].pc = "gwm_read"
    /\ return(t, TRUE, {m \in {word_mastery[i] : i \in 1..Len(word_mastery)} :
                           m.user_name = th[t].args.user_name})
    /\ UNCHANGED <<foreign_keys, db, now, tx>>

\* create_article on a thread
ca_insert(t) ==
    /\ th[t].pc = "ca_insert"
    /\ articles' = articles \cup {Cardinality(articles) + 1}
    /\ return(t, TRUE, Cardinality(articles) + 1)
    /\ UNCHANGED <<foreign_keys, segments, seg_seq, word_mastery, now, tx>>

\* the arguments the frontend passes
SaveArgs ==
    {[article_id |-> 1, segment_type |-> "word", segments |-> segs, fault |-> NoFault]
        : segs \in {<<"a">>, <<"a", "b">>}}

UpdateArgs ==
    {[user_name |-> "default", segment_id |-> s.id, segment_content |-> s.content,
      segment_type |-> s.segment_type, correct |-> ok, fault |-> "none"]
        : s \in segments, ok \in BOOLEAN}

PlanArgs == {[user_name |-> "default", article_id |-> 1, segment_type |-> "word", limit |-> 2]}

NextConc ==
    \/ Tick
    \/ \E t \in Threads :
          \/ Cardinality(articles) + 1 \in ArticleIds /\ UNCHANGED ops
                /\ invoke(t, "create_article", None)
          \/ \E a \in SaveArgs : seg_seq + Len(a.segments) <= MaxId /\ Call
                /\ invoke(t, "save_segments", a)
          \/ \E a \in UpdateArgs : Call /\ invoke(t, "update_word_mastery", a)
          \/ \E a \in PlanArgs : Call /\ invoke(t, "get_scheduled_words", a)
          \/ Call /\ invoke(t, "get_segments", [article_id |-> 1, segment_type |-> "word"])
          \/ Call /\ invoke(t, "get_word_masteries", [user_name |-> "default"])
    \/ \E t \in Threads : UNCHANGED ops /\ mutex_lock(t)
    \/ \E t \in Threads : UNCHANGED ops /\ ss_begin(t)
    \/ \E t \in Threads : UNCHANGED ops /\ ss_delete(t)
    \/ \E t \in Threads : UNCHANGED ops /\ ss_insert(t)
    \/ \E t \in Threads : UNCHANGED ops /\ ss_restore(t)
    \/ \E t \in Threads : UNCHANGED ops /\ ss_commit(t)
    \/ \E t \in Threads : UNCHANGED ops /\ uwm_read(t)
    \/ \E t \in Threads : UNCHANGED ops /\ uwm_write(t)
    \/ \E t \in Threads : UNCHANGED ops /\ gsw_segments(t)
    \/ \E t \in Threads : UNCHANGED ops /\ gsw_mastery(t)
    \/ \E t \in Threads : UNCHANGED ops /\ gs_read(t)
    \/ \E t \in Threads : UNCHANGED ops /\ gwm_read(t)
    \/ \E t \in Threads : UNCHANGED ops /\ ca_insert(t)

SpecConc == Init /\ [][NextConc]_vars

\* ---------------------------------------------------------------- session plans
MaxPlanOps == 3

\* limit is an i32: negative, zero, below, at and above the number of items to plan
Limits == {-1, 0, 1, 2, 3}

\* article 2 is never created
PlanArticleIds == {1, 2}

PlanSegmentLists == {<<"a", "b", "a">>}

PlanCall == ops < MaxPlanOps /\ ops' = ops + 1

NextPlan ==
    \/ Tick
    \/ Cardinality(articles) + 1 \in ArticleIds /\ UNCHANGED ops /\ create_article
    \/ \E segs \in PlanSegmentLists :
          seg_seq + Len(segs) <= MaxId /\ PlanCall /\ save_segments(1, "word", segs, NoFault)
    \/ \E s \in segments, u \in Users, ok \in BOOLEAN :
          /\ u = "default" \/ s.order_index = 0
          /\ PlanCall /\ update_word_mastery(u, s.id, s.content, s.segment_type, ok, "none")
    \/ \E u \in Users, l \in Limits :
          UNCHANGED ops /\ get_scheduled_words(u, 1, "word", l)

SpecPlan == Init /\ [][NextPlan]_vars

\* ---------------------------------------------------------------- plans for any article and kind
WideSegmentLists == {<<>>, <<"a">>}

NextWide ==
    \/ Tick
    \/ Cardinality(articles) + 1 \in ArticleIds /\ UNCHANGED ops /\ create_article
    \/ \E segs \in WideSegmentLists :
          seg_seq + Len(segs) <= MaxId /\ PlanCall /\ save_segments(1, "word", segs, NoFault)
    \/ \E s \in segments, ok \in BOOLEAN :
          PlanCall /\ update_word_mastery("default", s.id, s.content, s.segment_type, ok, "none")
    \/ \E u \in Users, a \in PlanArticleIds, k \in Kinds, l \in Limits :
          UNCHANGED ops /\ get_scheduled_words(u, a, k, l)

SpecWide == Init /\ [][NextWide]_vars

\* ---------------------------------------------------------------- the same plan asked twice
MaxRepeatOps == 4

RepeatLimits == {1, 2}

\* the caller of the get_scheduled_words command keeps the response it was
\* returned, with the call's number and the tables it was computed from
keep_response(t) ==
    /\ ret.op = "get_scheduled_words"
    /\ IF th[t].op = "get_scheduled_words" THEN th[t].loc.call # ops ELSE TRUE
    /\ th' = [th EXCEPT ![t] = [pc |-> "idle", op |-> ret.op, args |-> ret.args,
                                 loc |-> [val |-> ret.val, call |-> ops,
                                          segments |-> segments,
                                          word_mastery |-> word_mastery]]]
    /\ UNCHANGED <<foreign_keys, db, now, ret, ops, lock, tx>>

RepeatCall == ops < MaxRepeatOps /\ ops' = ops + 1

NextRepeat ==
    \/ Tick
    \/ Cardinality(articles) + 1 \in ArticleIds /\ UNCHANGED ops /\ create_article
    \/ seg_seq + 2 <= MaxId /\ RepeatCall /\ save_segments(1, "word", <<"a", "b">>, NoFault)
    \/ \E s \in segments, ok \in BOOLEAN :
          RepeatCall /\ update_word_mastery("default", s.id, s.content, s.segment_type, ok, "none")
    \/ \E l \in RepeatLimits : RepeatCall /\ get_scheduled_words("default", 1, "word", l)
    \/ keep_response(1)

SpecRepeat == Init /\ [][NextRepeat]_vars

\* ---------------------------------------------------------------- reads between writes
ReadSegmentLists == {<<"a", "b">>}

ReadLimits == {3}

\* segment_type: Option<&str>
KindFilters == Kinds \cup {AnyKind}

NextRead ==
    \/ Tick
    \/ Cardinality(articles) + 1 \in ArticleIds /\ UNCHANGED ops /\ create_article
    \/ \E segs \in ReadSegmentLists :
          seg_seq + Len(segs) <= MaxId /\ PlanCall /\ save_segments(1, "word", segs, NoFault)
    \/ \E s \in segments, ok \in BOOLEAN :
          PlanCall /\ update_word_mastery("default", s.id, s.content, s.segment_type, ok, "none")
    \/ \E u \in Users, l \in ReadLimits :
          UNCHANGED ops /\ get_scheduled_words(u, 1, "word", l)
    \/ \E u \in Users \cup QuotedNames, k \in KindFilters :
          UNCHANGED ops /\ get_word_masteries(u, k)

SpecRead == Init /\ [][NextRead]_vars

\* ---------------------------------------------------------------- reports on any item id
\* ids that are live, dead or not yet assigned
LooseIds == 1..MaxId

LooseSegmentLists == {<<"a">>, <<"a", "b">>}

MaxLooseOps == 4

LooseCall == ops < MaxLooseOps /\ ops' = ops + 1

NextLoose ==
    \/ Tick
    \/ Cardinality(articles) + 1 \in ArticleIds /\ UNCHANGED ops /\ create_article
    \/ \E segs \in LooseSegmentLists :
          seg_seq + Len(segs) <= MaxId /\ LooseCall /\ save_segments(1, "word", segs, NoFault)
    \/ \E id \in LooseIds, ok \in BOOLEAN :
          LooseCall /\ update_word_mastery("default", id, "a", "word", ok, "none")

SpecLoose == Init /\ [][NextLoose]_vars

\* ---------------------------------------------------------------- one content on several rows
MaxTieOps == 4

TieSegmentLists == {<<"a">>, <<"a", "a">>}

TieCall == ops < MaxTieOps /\ ops' = ops + 1

NextTies ==
    \/ Tick
    \/ Cardinality(articles) + 1 \in ArticleIds /\ UNCHANGED ops /\ create_article
    \/ \E segs \in TieSegmentLists :
          seg_seq + Len(segs) <= MaxId /\ TieCall /\ save_segments(1, "word", segs, NoFault)
    \/ \E s \in segments, u \in Users, ok \in BOOLEAN :
          TieCall /\ update_word_mastery(u, s.id, s.content, s.segment_type, ok, "none")

SpecTies == Init /\ [][NextTies]_vars

\* ---------------------------------------------------------------- two articles, two kinds, storage failures
FrameArticleIds == {1, 2}

FrameSegmentLists == {<<>>, <<"a">>}

NextFrame ==
    \/ Tick
    \/ Cardinality(articles) + 1 \in ArticleIds /\ UNCHANGED ops /\ create_article
    \/ \E a \in FrameArticleIds, k \in Kinds, segs \in FrameSegmentLists, f \in SaveFaults :
          /\ seg_seq + Len(segs) <= MaxId
          /\ fault_applies(f, a, k, segs)
          /\ Call /\ save_segments(a, k, segs, f)
    \/ \E s \in segments, ok \in BOOLEAN :
          Call /\ update_word_mastery("default", s.id, s.content, s.segment_type, ok, "none")

SpecFrame == Init /\ [][NextFrame]_vars

\* ---------------------------------------------------------------- rows as found in the database file
\* mastery_level is an INTEGER column and ease_factor a REAL one: the file may
\* hold any value, also outside 0..5 and 1.3..3.0
StoredLevels == {-2, -1, 0, 3, 5, 6, 7}

StoredEases == {5, 13, 25, 30, 34}

\* a database file with article 1, its word "a" and a row of 'default' on it
InitStored ==
    /\ foreign_keys \in BOOLEAN
    /\ articles = {1}
    /\ segments = {SegmentRow(1, 1, "word", "a", 0)}
    /\ seg_seq = 1
    /\ \E ml \in StoredLevels, ef \in StoredEases, iv \in {0, 1} :
          word_mastery = <<MasteryRow("default", 1, "a", "word", ml, ef, iv, iv, 0, 1)>>
    /\ now = 0
    /\ ret = Ret("new", TRUE, None, None)
    /\ ops = 0
    /\ lock = 0
    /\ tx = None
    /\ th = [t \in {1, 2} |-> [pc |-> "idle", op |-> "none", args |-> None, loc |-> None]]

NextStored ==
    \/ Tick
    \/ \E ok \in BOOLEAN : Call /\ update_word_mastery("default", 1, "a", "word", ok, "none")

SpecStored == InitStored /\ [][NextStored]_vars

\* ================================================================ properties
\* the rows of a table, as a set
Rows(rows) == {rows[i] : i \in 1..Len(rows)}

\* the learning-state fields of a word_mastery row
Learning(m) ==
    <<m.mastery_level, m.ease_factor, m.interval_days,
      m.next_review_at, m.last_review_at, m.review_count>>

\* the step just taken is the save_segments call that ret' reports
IsSave ==
    /\ ret'.op = "save_segments"
    /\ save_segments(ret'.args.article_id, ret'.args.segment_type,
                     ret'.args.segments, ret'.args.fault)

\* the step just taken is the update_word_mastery call that ret' reports
IsUpdate ==
    /\ ret'.op = "update_word_mastery"
    /\ update_word_mastery(ret'.args.user_name, ret'.args.segment_id,
                           ret'.args.segment_content, ret'.args.segment_type,
                           ret'.args.correct, ret'.args.fault)

\* the word_mastery rows attached to the current items of (article_id, segment_type)
RowsOn(rows, segs, article_id, segment_type) ==
    {m \in Rows(rows) : m.segment_id \in segment_ids_of(segs, article_id, segment_type)}

\* C1: after a successful save_segments, every new item whose content is the
\* content of a word_mastery row of the old item set has a row under its new
\* id whose level, ease, interval, next/last review time and count are those
\* of a pre-call row with that content.
C1_ResegmentCarriesLearningState ==
    [][(IsSave /\ ret'.ok) =>
        LET a == ret'.args.article_id
            k == ret'.args.segment_type
            before == RowsOn(word_mastery, segments, a, k)
        IN \A s \in {r \in segments' : r.article_id = a /\ r.segment_type = k} :
              (\E m \in before : m.segment_content = s.content) =>
                 \E n \in Rows(word_mastery') :
                    /\ n.segment_id = s.id
                    /\ \E m \in before : /\ m.segment_content = s.content
                                         /\ Learning(m) = Learning(n)]_vars

\* a save_segments has just re-attached a practised row (review_count > 0) to a new item
C1_Witness ==
    /\ ret.op = "save_segments" /\ ret.ok
    /\ \E m \in RowsOn(word_mastery, segments, ret.args.article_id, ret.args.segment_type) :
          m.user_name = "default" /\ m.review_count > 0

\* C2: for every user and content: a row of that user with that content on the
\* old item set is, after a successful save_segments whose list contains the
\* content, a row of the same user with the same learning state on a new item.
C2_EveryUserKeepsRecord ==
    [][(IsSave /\ ret'.ok) =>
        LET a == ret'.args.article_id
            k == ret'.args.segment_type
            segs == ret'.args.segments
        IN \A m \in RowsOn(word_mastery, segments, a, k) :
              (\E i \in 1..Len(segs) : segs[i] = m.segment_content) =>
                 \E n \in RowsOn(word_mastery', segments', a, k) :
                    /\ n.user_name = m.user_name
                    /\ n.segment_content = m.segment_content
                    /\ \E m2 \in RowsOn(word_mastery, segments, a, k) :
                          /\ m2.user_name = m.user_name
                          /\ m2.segment_content = m.segment_content
                          /\ Learning(m2) = Learning(n)]_vars

\* C3: a save_segments in which any step fails (snapshot, delete, insert,
\* re-insert, commit) returns an error and leaves segments and word_mastery as
\* they were.
C3_FailedResegmentChangesNothing ==
    [][(IsSave /\ ret'.args.fault.step # "none") =>
          /\ ~ret'.ok
          /\ segments' = segments
          /\ word_mastery' = word_mastery]_vars

\* the statements of the read-only commands
ReaderPcs == {"gsw_segments", "gsw_mastery", "gs_read", "gwm_read"}

\* C4: get_scheduled_words, get_segments and get_word_masteries never read
\* while a save_segments transaction is open: no read sees the item set
\* between its DELETE and its INSERTs or new items ahead of their restored rows.
C4_ReadersSeeNoOpenResegment ==
    \A t \in Threads : th[t].pc \in ReaderPcs => tx = None

\* a get_scheduled_words waits for the mutex while a save_segments has deleted
\* the old items and not yet committed
C4_Witness ==
    \E t, u \in Threads :
       /\ th[t].pc \in {"ss_insert", "ss_restore", "ss_commit"}
       /\ th[u].op = "get_scheduled_words" /\ th[u].pc = "lock"

\* C5: when update_word_mastery writes, the row it read is still the stored
\* row of its (user_name, segment_id): of two racing reports the second
\* computes from what the first wrote.
C5_UpdateWritesFromCurrentRow ==
    \A t \in Threads :
       th[t].pc = "uwm_write" =>
          th[t].loc.existing = read_existing(word_mastery, th[t].args.user_name,
                                             th[t].args.segment_id, "none")

\* one report has read its row and another for the same key waits for the mutex
C5_Witness ==
    \E t, u \in Threads :
       /\ t # u
       /\ th[t].pc = "uwm_write"
       /\ th[u].op = "update_word_mastery" /\ th[u].pc = "lock"
       /\ th[u].args.user_name = th[t].args.user_name
       /\ th[u].args.segment_id = th[t].args.segment_id

\* the interval table of the specification, by mastery level 0..5
IntervalTable == [l \in 0..5 |-> <<1, 1, 3, 7, 14, 30>>[l + 1]]

\* the row stored for the key of the update_word_mastery call that ret' reports
StoredAfter == read_existing(word_mastery', ret'.args.user_name, ret'.args.segment_id, "none")

\* the row stored for that key before the call
StoredBefore == read_existing(word_mastery, ret'.args.user_name, ret'.args.segment_id, "none")

\* C6: on an item that only ever received correct reports, after the k-th
\* report (review_count = k) mastery_level is min(k, 5) and interval_days is
\* the table value of that level.
C6_CorrectStreakClimbsToFive ==
    \A m \in Rows(word_mastery) :
       /\ m.review_count >= 1
       /\ m.mastery_level = Min(m.review_count, 5)
       /\ m.interval_days = IntervalTable[m.mastery_level]

\* a sixth correct report in a row has left the item at level 5, 30 days
C6_Witness ==
    \E m \in Rows(word_mastery) : m.review_count = 6 /\ m.mastery_level = 5

\* C7: after any update_word_mastery with correct = false, the returned row is
\* the stored row, its interval_days is 0 and its next_review_at and
\* last_review_at are the time of the call.
C7_IncorrectIsDueAtOnce ==
    [][(IsUpdate /\ ret'.ok /\ ~ret'.args.correct) =>
          /\ ret'.val.interval_days = 0
          /\ ret'.val.next_review_at = now
          /\ ret'.val.last_review_at = now
          /\ StoredAfter = ret'.val]_vars

\* a wrong answer on an item practised up to level 3 or more
C7_Witness ==
    /\ ret.op = "update_word_mastery" /\ ret.ok /\ ~ret.args.correct
    /\ ret.val.mastery_level >= 2 /\ ret.val.review_count >= 3

\* C8: every word_mastery row has ease_factor within [1.3, 3.0] (13..30 tenths).
C8_EaseWithinBounds ==
    \A m \in Rows(word_mastery) : 13 <= m.ease_factor /\ m.ease_factor <= 30

\* a seventh correct report found ease at 3.0 and left it there
C8_Witness ==
    \E m \in Rows(word_mastery) : m.ease_factor = 30 /\ m.review_count = 7

\* C9: update_word_mastery for an existing item without a row of the user
\* succeeds, stores the row it returns, and that row is (1, 2.5, 1, 1) when
\* correct and (0, 2.5, 0, 0) when not.
C9_FirstReportValues ==
    [][(/\ IsUpdate
        /\ ret'.args.segment_id \in {s.id : s \in segments}
        /\ StoredBefore = None) =>
          /\ ret'.ok
          /\ StoredAfter = ret'.val
          /\ <<ret'.val.mastery_level, ret'.val.ease_factor,
               ret'.val.interval_days, ret'.val.review_count>>
                = IF ret'.args.correct THEN <<1, 25, 1, 1>> ELSE <<0, 25, 0, 0>>]_vars

\* a first report that was wrong has just created a row
C9_Witness ==
    /\ ret.op = "update_word_mastery" /\ ret.ok /\ ~ret.args.correct
    /\ ret.val.review_count = 0 /\ ret.val.ease_factor = 25

\* C10: a correct report on an existing row (level, ease, interval, count)
\* yields level' = min(level + 1, 5), ease' = clamp(ease + 0.1), count' =
\* count + 1 and interval' = the table value at level'.
C10_CorrectOnExistingRow ==
    [][(IsUpdate /\ ret'.ok /\ ret'.args.correct /\ StoredBefore # None) =>
          /\ ret'.val.mastery_level = Min(StoredBefore.mastery_level + 1, 5)
          /\ ret'.val.ease_factor = Max(13, Min(30, StoredBefore.ease_factor + 1))
          /\ ret'.val.review_count = StoredBefore.review_count + 1
          /\ ret'.val.interval_days = IntervalTable[ret'.val.mastery_level]
          /\ StoredAfter = ret'.val]_vars

\* a correct report on a row that a wrong first report had created
C10_Witness ==
    /\ ret.op = "update_word_mastery" /\ ret.ok /\ ret.args.correct
    /\ ret.val.review_count = 1 /\ ret.val.ease_factor = 26

\* C11: an incorrect report on an existing row (level, ease, interval, count)
\* yields level' = max(level - 1, 0), ease' = clamp(ease - 0.2, 1.3, 3.0) and
\* count' = count: review_count does not change and so never decreases.
C11_IncorrectOnExistingRow ==
    [][(IsUpdate /\ ret'.ok /\ ~ret'.args.correct /\ StoredBefore # None) =>
          /\ ret'.val.mastery_level = Max(StoredBefore.mastery_level - 1, 0)
          /\ ret'.val.ease_factor = Max(13, Min(30, StoredBefore.ease_factor - 2))
          /\ ret'.val.review_count = StoredBefore.review_count
          /\ StoredAfter = ret'.val]_vars

\* a wrong answer on a once-correct item has met the floor of ease, 1.3, at level 0
C11_Witness ==
    /\ ret.op = "update_word_mastery" /\ ret.ok /\ ~ret.args.correct
    /\ ret.val.ease_factor = 13 /\ ret.val.mastery_level = 0 /\ ret.val.review_count = 1

\* ret holds the response of a get_scheduled_words call
IsPlanned == ret.op = "get_scheduled_words" /\ ret.ok

\* the items of (article_id, segment_type)
ItemsOf(article_id, segment_type) ==
    {s \in segments : s.article_id = article_id /\ s.segment_type = segment_type}

\* the word_mastery row of user_name on item s, or None
RecordOf(user_name, s) == read_existing(word_mastery, user_name, s.id, "none")

\* review set: the items with a row of the user whose next_review_at is not after t
DueItems(user_name, article_id, segment_type, t) ==
    {s \in ItemsOf(article_id, segment_type) :
        /\ RecordOf(user_name, s) # None
        /\ RecordOf(user_name, s).next_review_at <= t}

\* new set: the items without a row of the user
NeverSeen(user_name, article_id, segment_type) ==
    {s \in ItemsOf(article_id, segment_type) : RecordOf(user_name, s) = None}

\* the review set and the new set of the call that ret reports
PlanDue == DueItems(ret.args.user_name, ret.args.article_id, ret.args.segment_type, ret.args.now)

PlanNew == NeverSeen(ret.args.user_name, ret.args.article_id, ret.args.segment_type)

\* the segment ids in a list of plan entries
IdsIn(words) == {words[i].segment_id : i \in 1..Len(words)}

\* the item a plan entry names
ItemOf(e) == CHOOSE s \in segments : s.id = e.segment_id

\* x is to be reviewed strictly before y: earlier next_review_at, then lower mastery_level
Sooner(x, y) ==
    \/ x.next_review_at < y.next_review_at
    \/ x.next_review_at = y.next_review_at /\ x.mastery_level < y.mastery_level

\* C12: when more items are due than limit, the plan is the first `limit`
\* items of the review set sorted by next_review_at, then mastery_level, and
\* holds no new item: no due item left out is to be reviewed before one kept.
C12_TruncationKeepsMostUrgent ==
    (IsPlanned /\ ret.args.limit >= 0 /\ Cardinality(PlanDue) > ret.args.limit) =>
        LET words == ret.val.words
        IN /\ Len(words) = ret.args.limit
           /\ \A i \in 1..Len(words) : ~words[i].is_new
           /\ \A i \in 1..Len(words) : \A d \in PlanDue :
                 d.id \notin IdsIn(words) => ~Sooner(RecordOf(ret.args.user_name, d), words[i])

\* C13: in every plan all due entries precede all new entries, and the new
\* entries are the first never-seen items of the article in ascending
\* order_index.
C13_ReviewFirstThenNewInOrder ==
    IsPlanned =>
        LET words == ret.val.words
        IN /\ \A i, j \in 1..Len(words) : (i < j /\ words[i].is_new) => words[j].is_new
           /\ \A i, j \in 1..Len(words) : (i < j /\ words[i].is_new) =>
                 ItemOf(words[i]).order_index < ItemOf(words[j]).order_index
           /\ \A i \in 1..Len(words) : words[i].is_new =>
                 \A s \in PlanNew : s.order_index < ItemOf(words[i]).order_index
                                        => s.id \in IdsIn(words)

\* a plan of one due entry followed by two new entries
C13_Witness ==
    /\ IsPlanned /\ Len(ret.val.words) = 3
    /\ ~ret.val.words[1].is_new /\ ret.val.words[2].is_new /\ ret.val.words[3].is_new

\* C14: the due entries of every plan are in ascending next_review_at, and
\* those with equal next_review_at in ascending mastery_level.
C14_ReviewEntriesSorted ==
    IsPlanned =>
        LET words == ret.val.words
        IN \A i, j \in 1..Len(words) :
              (i < j /\ ~words[i].is_new /\ ~words[j].is_new) => ~Sooner(words[j], words[i])

\* a plan whose two due entries with equal next_review_at stand in the reverse of their
\* order in the article: the later item has the lower mastery_level
C14_Witness ==
    /\ IsPlanned /\ Len(ret.val.words) >= 2
    /\ ~ret.val.words[1].is_new /\ ~ret.val.words[2].is_new
    /\ ret.val.words[1].next_review_at = ret.val.words[2].next_review_at
    /\ ret.val.words[1].mastery_level < ret.val.words[2].mastery_level
    /\ ItemOf(ret.val.words[1]).order_index > ItemOf(ret.val.words[2]).order_index

\* C15: for every limit, zero and negative included, the plan has at most
\* `limit` entries; a limit of 0 or less gives the empty plan.
C15_PlanNoLongerThanLimit ==
    IsPlanned => Len(ret.val.words) <= Max(ret.args.limit, 0)

\* C16: for limit >= 0 the plan has exactly min(limit, due + never-seen)
\* entries: a plan shorter than limit holds every due and every never-seen item.
C16_PlanLengthIsMin ==
    (IsPlanned /\ ret.args.limit >= 0) =>
        /\ Len(ret.val.words) = Min(ret.args.limit, Cardinality(PlanDue) + Cardinality(PlanNew))
        /\ Len(ret.val.words) < ret.args.limit =>
              IdsIn(ret.val.words) = {s.id : s \in PlanDue \cup PlanNew}

\* a plan shorter than its limit that holds a due and a new item while a third item is not due
C16_Witness ==
    /\ IsPlanned /\ ret.args.limit = 3 /\ Len(ret.val.words) = 2
    /\ ~ret.val.words[1].is_new /\ ret.val.words[2].is_new
    /\ Cardinality(ItemsOf(ret.args.article_id, ret.args.segment_type)) = 3

\* C17: every entry with is_new = false names an item with a row of the
\* requesting user whose next_review_at is not after now and carries the
\* mastery_level of that row; every entry with is_new = true names an item
\* without a row of that user and carries mastery_level 0; an item whose row
\* has next_review_at after now is in no plan.
C17_EntriesMatchLedger ==
    IsPlanned =>
        LET words == ret.val.words
            u == ret.args.user_name
        IN /\ \A i \in 1..Len(words) :
                 /\ words[i].segment_id \in {s.id : s \in ItemsOf(ret.args.article_id,
                                                                  ret.args.segment_type)}
                 /\ ~words[i].is_new =>
                       /\ ItemOf(words[i]) \in PlanDue
                       /\ words[i].mastery_level = RecordOf(u, ItemOf(words[i])).mastery_level
                 /\ words[i].is_new =>
                       /\ ItemOf(words[i]) \in PlanNew
                       /\ words[i].mastery_level = 0
           /\ \A s \in ItemsOf(ret.args.article_id, ret.args.segment_type) :
                 (RecordOf(u, s) # None /\ RecordOf(u, s).next_review_at > ret.args.now)
                    => s.id \notin IdsIn(words)

\* a plan with room to spare leaves out the first item, whose row of the requesting user is
\* not yet due, and lists as new an item that only the other user has a row on
C17_Witness ==
    /\ IsPlanned /\ ret.args.limit = 3 /\ ret.args.user_name = "alice"
    /\ \E s, r \in ItemsOf(ret.args.article_id, ret.args.segment_type) :
          /\ RecordOf("alice", s) # None
          /\ RecordOf("alice", s).next_review_at > ret.args.now
          /\ RecordOf("alice", r) = None /\ RecordOf("default", r) # None
          /\ r.id \in IdsIn(ret.val.words)

\* C18: new_words_count is the number of entries with is_new = true,
\* review_words_count the number with is_new = false, and they add up to the
\* length of the plan: the counts are of the plan returned.
C18_CountsDescribePlan ==
    IsPlanned =>
        LET words == ret.val.words
        IN /\ ret.val.new_words_count = Cardinality({i \in 1..Len(words) : words[i].is_new})
           /\ ret.val.review_words_count = Cardinality({i \in 1..Len(words) : ~words[i].is_new})
           /\ ret.val.new_words_count + ret.val.review_words_count = Len(words)

\* a plan of one due and one new entry that left a second new item out
C18_Witness ==
    /\ IsPlanned /\ ret.args.limit = 2
    /\ ret.val.review_words_count = 1 /\ ret.val.new_words_count = 1
    /\ Cardinality(PlanNew) = 2

\* C19: get_scheduled_words for an (article, kind) without items - an article
\* without segments, an unknown article id, a kind never segmented - returns
\* Ok with no words and both counts 0, for every user and limit.
C19_NoItemsGivesEmptyPlan ==
    (ret.op = "get_scheduled_words"
        /\ ItemsOf(ret.args.article_id, ret.args.segment_type) = {}) =>
        /\ ret.ok
        /\ ret.val.words = <<>>
        /\ ret.val.new_words_count = 0
        /\ ret.val.review_words_count = 0

\* a plan asked for the sentences of an article whose words are segmented and practised
C19_Witness ==
    /\ ret.op = "get_scheduled_words" /\ ret.ok
    /\ ret.args.article_id = 1 /\ ret.args.segment_type = "sentence" /\ ret.args.limit = 3
    /\ ItemsOf(1, "sentence") = {} /\ ItemsOf(1, "word") # {}
    /\ word_mastery # <<>>

\* caller t holds the response of an earlier get_scheduled_words call with
\* the arguments and timestamp of the call ret reports, and segments and
\* word_mastery are what they were at that call
SamePlanAskedAgain(t) ==
    /\ IsPlanned
    /\ th[t].op = "get_scheduled_words"
    /\ th[t].loc.call < ops
    /\ th[t].args = ret.args
    /\ th[t].loc.segments = segments
    /\ th[t].loc.word_mastery = word_mastery

ReadOps == {"get_scheduled_words", "get_word_masteries"}

\* C21: get_scheduled_words and get_word_masteries leave segments and
\* word_mastery as they were, and a step that changes the mastery_level or
\* ease_factor stored under a (user_name, segment_id) is an
\* update_word_mastery call for that key.
C21_ReadsChangeNothing ==
    [][/\ (ret' # ret /\ ret'.op \in ReadOps) =>
             (segments' = segments /\ word_mastery' = word_mastery)
       /\ \A i \in 1..Len(word_mastery) : \A j \in 1..Len(word_mastery') :
             (/\ word_mastery[i].user_name = word_mastery'[j].user_name
              /\ word_mastery[i].segment_id = word_mastery'[j].segment_id
              /\ \/ word_mastery[i].mastery_level # word_mastery'[j].mastery_level
                 \/ word_mastery[i].ease_factor # word_mastery'[j].ease_factor) =>
                (/\ ret'.op = "update_word_mastery"
                 /\ ret'.args.user_name = word_mastery[i].user_name
                 /\ ret'.args.segment_id = word_mastery[i].segment_id)]_vars

\* get_word_masteries has listed two rows of a user, the later-written one first
C21_Witness ==
    /\ ret.op = "get_word_masteries" /\ ret.ok /\ Len(ret.val) = 2
    /\ ret.val[1].mastery_level < ret.val[2].mastery_level
    /\ word_mastery[1] = ret.val[2]
    /\ now > ret.val[2].last_review_at

\* C22: update_word_mastery for a segment_id that is no row of segments (never
\* assigned, or deleted by a save_segments) and has no row of the user returns
\* Ok and stores the first-report row it returns.
C22_ReportOnMissingItemSucceeds ==
    [][(/\ IsUpdate
        /\ ret'.args.segment_id \notin {s.id : s \in segments}
        /\ StoredBefore = None) =>
          /\ ret'.ok
          /\ StoredAfter = ret'.val
          /\ <<ret'.val.mastery_level, ret'.val.ease_factor,
               ret'.val.interval_days, ret'.val.review_count>>
                = IF ret'.args.correct THEN <<1, 25, 1, 1>> ELSE <<0, 25, 0, 0>>]_vars

\* C23: an update_word_mastery in which a statement fails - the read of the
\* existing row included - returns an error and leaves word_mastery as it was.
C23_FailedReportChangesNothing ==
    [][(IsUpdate /\ ret'.args.fault # "none") =>
          /\ ~ret'.ok
          /\ word_mastery' = word_mastery]_vars

\* C24: after a successful save_segments, a new item whose content is the
\* content of no word_mastery row of the old item set has no row of any user,
\* and a plan of the (article, kind) long enough for all items lists it with
\* is_new = true.
C24_UnmatchedItemsStartNew ==
    [][(IsSave /\ ret'.ok) =>
        LET a == ret'.args.article_id
            k == ret'.args.segment_type
            before == RowsOn(word_mastery, segments, a, k)
            items == {r \in segments' : r.article_id = a /\ r.segment_type = k}
            plan(u) == scheduled_words(all_segments_of(segments', a, k),
                                       mastery_map_of(word_mastery', segments', u, a, k),
                                       Cardinality(items), now).words
        IN \A s \in items :
              (~\E m \in before : m.segment_content = s.content) =>
                 \A u \in Users :
                    /\ read_existing(word_mastery', u, s.id, "none") = None
                    /\ \E i \in 1..Len(plan(u)) : /\ plan(u)[i].segment_id = s.id
                                                     /\ plan(u)[i].is_new]_vars

\* C25, as stated: every word_mastery row has the interval_days that the
\* table {0->1, 1->1, 2->3, 3->7, 4->14, 5->30} gives its mastery_level.
C25_IntervalIsTableValue ==
    \A m \in Rows(word_mastery) :
       m.mastery_level \in 0..5 /\ m.interval_days = IntervalTable[m.mastery_level]

\* C25, amended: every word_mastery row has interval_days 0 (its last report
\* was incorrect) or the table value of its mastery_level.
C25_IntervalIsTableValueOrZero ==
    \A m \in Rows(word_mastery) :
       /\ m.mastery_level \in 0..5
       /\ m.interval_days \in {0, IntervalTable[m.mastery_level]}

\* a row at level 2 with interval 0: a wrong answer after three correct ones
C25_Witness ==
    \E m \in Rows(word_mastery) :
       m.mastery_level = 2 /\ m.interval_days = 0 /\ m.review_count = 3

\* C26: every word_mastery row, written by update_word_mastery or re-inserted
\* by save_segments, has next_review_at >= last_review_at.
C26_NextReviewNotBeforeLast ==
    \A m \in Rows(word_mastery) : m.next_review_at >= m.last_review_at

\* save_segments has re-inserted, a day after its report, a row that is due the day after that report
C26_Witness ==
    /\ ret.op = "save_segments" /\ ret.ok
    /\ \E m \in RowsOn(word_mastery, segments, ret.args.article_id, ret.args.segment_type) :
          m.next_review_at > m.last_review_at /\ now > m.last_review_at

\* C27: every word_mastery row has mastery_level in 0..5, interval_days >= 0
\* and review_count >= 0.
C27_FieldsInRange ==
    \A m \in Rows(word_mastery) :
       /\ m.mastery_level \in 0..5
       /\ m.interval_days >= 0
       /\ m.review_count >= 0

\* a row still at level 5 after a correct answer at level 5, its sixth
C27_Witness ==
    \E m \in Rows(word_mastery) : m.mastery_level = 5 /\ m.review_count = 6

\* C28: for every stored row, also one whose mastery_level is outside 0..5
\* or whose ease_factor is outside [1.3, 3.0], update_word_mastery succeeds
\* and returns mastery_level within 0..5 and ease_factor within [1.3, 3.0].
C28_UpdateClampsStoredValues ==
    [][(IsUpdate /\ StoredBefore # None) =>
          /\ ret'.ok
          /\ ret'.val.mastery_level \in 0..5
          /\ 13 <= ret'.val.ease_factor /\ ret'.val.ease_factor <= 30]_vars

\* C29: no two word_mastery rows have the same (user_name, segment_id).
C29_OneRowPerUserAndItem ==
    \A i, j \in 1..Len(word_mastery) :
       (/\ word_mastery[i].user_name = word_mastery[j].user_name
        /\ word_mastery[i].segment_id = word_mastery[j].segment_id) => i = j

\* a save_segments whose re-insert met a row already stored under the id of
\* the new item was refused: the two rows are as they were
C29_Witness ==
    /\ ~foreign_keys
    /\ ret.op = "save_segments" /\ ~ret.ok
    /\ Len(word_mastery) = 2
    /\ \E m \in Rows(word_mastery) : m.segment_id \notin {s.id : s \in segments}

\* C30: an item whose row of the user has interval_days = 0 (the last report
\* on it, also a first one, was incorrect) is in every plan of that user
\* taken at or after that report with limit >= the number of due items, as
\* an entry with is_new = false.
C30_FailedItemIsPlannedForReview ==
    IsPlanned =>
        \A s \in ItemsOf(ret.args.article_id, ret.args.segment_type) :
           LET r == RecordOf(ret.args.user_name, s)
           IN (/\ r # None
               /\ r.interval_days = 0
               /\ r.last_review_at <= ret.args.now
               /\ ret.args.limit >= Cardinality(PlanDue)) =>
                 \E i \in 1..Len(ret.val.words) :
                    /\ ret.val.words[i].segment_id = s.id
                    /\ ~ret.val.words[i].is_new

\* a plan taken a day after a wrong first report, with room for just the due item
C30_Witness ==
    /\ IsPlanned /\ ret.args.limit = 1 /\ Cardinality(PlanDue) = 1
    /\ Len(ret.val.words) = 1 /\ ~ret.val.words[1].is_new
    /\ \E s \in PlanDue :
          /\ RecordOf(ret.args.user_name, s).review_count = 0
          /\ RecordOf(ret.args.user_name, s).interval_days = 0
          /\ RecordOf(ret.args.user_name, s).last_review_at < ret.args.now

\* C31: after a successful save_segments(article, kind, contents),
\* get_segments(article, kind) returns Len(contents) items whose contents are
\* the input list in input order, with order_index 0, 1, ..., n-1, and none
\* of them is an item of the set that was replaced.
C31_ItemsAreTheInputInOrder ==
    [][(IsSave /\ ret'.ok) =>
        LET a == ret'.args.article_id
            k == ret'.args.segment_type
            contents == ret'.args.segments
            got == get_segments_of(segments', a, k)
        IN /\ Len(got) = Len(contents)
           /\ Cardinality({r \in segments' : r.article_id = a /\ r.segment_type = k}) = Len(contents)
           /\ \A i \in 1..Len(got) : /\ got[i].content = contents[i]
                                     /\ got[i].order_index = i - 1
           /\ segment_ids_of(segments, a, k) \cap segment_ids_of(segments', a, k) = {}]_vars

\* the list (b, a) has replaced an earlier item set
C31_Witness ==
    /\ ret.op = "save_segments" /\ ret.ok /\ ret.args.segments = <<"b", "a">>
    /\ seg_seq > 2
    /\ LET got == get_segments_of(segments, ret.args.article_id, ret.args.segment_type)
       IN Len(got) = 2 /\ got[1].content = "b" /\ got[2].content = "a" /\ got[1].id < got[2].id

\* C32: every word_mastery row, each of them created by a report on an item
\* that existed then, refers to an item that exists: save_segments leaves no
\* row under an id of the item set it replaced.
C32_RecordsReferToItems ==
    \A m \in Rows(word_mastery) : m.segment_id \in {s.id : s \in segments}

\* the first row, in rowid order, of the rows on the items of
\* (article_id, segment_type) that have the content
FirstRowWith(rows, segs, article_id, segment_type, content) ==
    LET ids == segment_ids_of(segs, article_id, segment_type)
        hits == {i \in 1..Len(rows) : rows[i].segment_id \in ids
                                      /\ rows[i].segment_content = content}
    IN IF hits = {} THEN None ELSE rows[CHOOSE i \in hits : \A j \in hits : i <= j]

\* C33: when several word_mastery rows of the old item set have the same
\* content (two old items with that content, or rows of several users), each
\* new item with that content gets, after a successful save_segments, the
\* learning-state fields of the first of these rows in the order of the
\* snapshot (rowid order), and of no later one.
C33_FirstMatchWins ==
    [][(IsSave /\ ret'.ok) =>
        LET a == ret'.args.article_id
            k == ret'.args.segment_type
        IN \A s \in {r \in segments' : r.article_id = a /\ r.segment_type = k} :
              LET first == FirstRowWith(word_mastery, segments, a, k, s.content)
              IN first # None =>
                    \A n \in Rows(word_mastery') :
                       n.segment_id = s.id => Learning(n) = Learning(first)]_vars

\* a new item has the learning state of the first of two differing rows with its content
C33_Witness ==
    /\ ret.op = "save_segments" /\ ret.ok
    /\ ~foreign_keys
    /\ \E i, j \in 1..Len(word_mastery), n \in RowsOn(word_mastery, segments, 1, "word") :
          /\ i < j
          /\ word_mastery[i].segment_id < n.segment_id
          /\ word_mastery[j].segment_id < n.segment_id
          /\ word_mastery[i].segment_id \notin {s.id : s \in segments}
          /\ word_mastery[j].segment_id \notin {s.id : s \in segments}
          /\ word_mastery[i].segment_content = n.segment_content
          /\ word_mastery[j].segment_content = n.segment_content
          /\ Learning(word_mastery[i]) # Learning(word_mastery[j])
          /\ Learning(n) = Learning(word_mastery[i])

\* the review_words that the call ret reports computed
PlanReviewWords ==
    review_words_of(all_segments_of(segments, ret.args.article_id, ret.args.segment_type),
                    mastery_map_of(word_mastery, segments, ret.args.user_name,
                                   ret.args.article_id, ret.args.segment_type),
                    ret.args.now)

\* C34: an item whose row of the user has interval_days = d >= 1 (its last
\* report, at time t, was correct) has next_review_at = t + d; it is in no
\* plan of that user taken before t + d, and it is in the review set of
\* every plan taken at or after t + d, and in the plan itself as a review
\* entry when limit >= the number of due items.
C34_CorrectItemWaitsForItsInterval ==
    IsPlanned =>
        \A s \in ItemsOf(ret.args.article_id, ret.args.segment_type) :
           LET r == RecordOf(ret.args.user_name, s)
           IN (r # None /\ r.interval_days >= 1) =>
                 /\ r.next_review_at = r.last_review_at + r.interval_days
                 /\ ret.args.now < r.last_review_at + r.interval_days =>
                        s.id \notin IdsIn(ret.val.words)
                 /\ ret.args.now >= r.last_review_at + r.interval_days =>
                        /\ \E i \in 1..Len(PlanReviewWords) : PlanReviewWords[i].segment_id = s.id
                        /\ ret.args.limit >= Cardinality(PlanDue) =>
                               \E i \in 1..Len(ret.val.words) :
                                  /\ ret.val.words[i].segment_id = s.id
                                  /\ ~ret.val.words[i].is_new

\* a plan on day 1: the item answered correctly on day 0 is a review entry,
\* the item answered correctly on day 1 is left out
C34_Witness ==
    /\ IsPlanned /\ ret.args.now = 1 /\ ret.args.limit = 3
    /\ \E s1, s2 \in ItemsOf(ret.args.article_id, ret.args.segment_type) :
          LET r1 == RecordOf(ret.args.user_name, s1)
              r2 == RecordOf(ret.args.user_name, s2)
          IN /\ r1 # None /\ r1.interval_days = 1 /\ r1.last_review_at = 0
             /\ r2 # None /\ r2.interval_days = 1 /\ r2.last_review_at = 1
             /\ \E i \in 1..Len(ret.val.words) :
                   ret.val.words[i].segment_id = s1.id /\ ~ret.val.words[i].is_new
             /\ s2.id \notin IdsIn(ret.val.words)
             /\ Len(ret.val.words) = 2

\* row m is the row of the key that the update_word_mastery call of ret' names
OfReportedKey(m) ==
    m.user_name = ret'.args.user_name /\ m.segment_id = ret'.args.segment_id

\* C35: update_word_mastery(user, item, ...) creates or changes only the
\* word_mastery row of (user, item): articles and segments are as before,
\* every row of another item or another user is as before, no row of another
\* key is added, and the row a successful call returns is the row stored.
C35_ReportTouchesOneRecord ==
    [][IsUpdate =>
          /\ articles' = articles /\ segments' = segments /\ seg_seq' = seg_seq
          /\ Len(word_mastery') \in {Len(word_mastery), Len(word_mastery) + 1}
          /\ \A i \in 1..Len(word_mastery) :
                ~OfReportedKey(word_mastery[i]) => word_mastery'[i] = word_mastery[i]
          /\ \A i \in 1..Len(word_mastery') :
                ~OfReportedKey(word_mastery'[i]) => i <= Len(word_mastery)
          /\ ret'.ok => StoredAfter = ret'.val]_vars

\* a report of alice has added her row next to the row of 'default' on the same item
C35_Witness ==
    /\ ret.op = "update_word_mastery" /\ ret.ok /\ ret.args.user_name = "alice"
    /\ Len(word_mastery) = 2
    /\ word_mastery[2] = ret.val
    /\ word_mastery[1].user_name = "default"
    /\ word_mastery[1].segment_id = ret.args.segment_id
    /\ Learning(word_mastery[1]) # Learning(ret.val)

\* C36: after a successful save_segments a user has a word_mastery row on a
\* new item only if that user had a row with the same content on the old item
\* set before the call.
C36_NoRecordForAnotherUser ==
    [][(IsSave /\ ret'.ok) =>
        LET a == ret'.args.article_id
            k == ret'.args.segment_type
        IN \A n \in RowsOn(word_mastery', segments', a, k) :
              \E m \in RowsOn(word_mastery, segments, a, k) :
                 /\ m.user_name = n.user_name
                 /\ m.segment_content = n.segment_content]_vars

\* C37: for any arguments passed to update_word_mastery, the segment_content
\* and segment_type of every word_mastery row are the content and
\* segment_type of the item its segment_id names.
C37_RecordHasContentOfItsItem ==
    \A m \in Rows(word_mastery) : \A s \in segments :
       s.id = m.segment_id => /\ m.segment_content = s.content
                              /\ m.segment_type = s.segment_type

\* the rows under the ids of the items that exist
RowsOnItems(rows, segs) == {m \in Rows(rows) : m.segment_id \in {s.id : s \in segs}}

\* C38: ids are never reused: the largest id given out never goes down,
\* every item has an id up to it, and every item a step creates has an id
\* above the largest id given out before the step; so a report with a stale
\* id (given out once, its item gone) changes no row of an existing item.
C38_IdsAreNeverReused ==
    [][/\ seg_seq' >= seg_seq
       /\ \A s \in segments' : /\ s.id <= seg_seq'
                              /\ s \notin segments => s.id > seg_seq
       /\ (/\ IsUpdate
           /\ ret'.args.segment_id <= seg_seq
           /\ ret'.args.segment_id \notin {s.id : s \in segments}) =>
              RowsOnItems(word_mastery', segments') = RowsOnItems(word_mastery, segments)]_vars

\* a report with the id of a replaced item has changed the row left under
\* that id, and the new item with the same content keeps its own row
C38_Witness ==
    /\ ret.op = "update_word_mastery" /\ ret.ok
    /\ ret.args.segment_id <= seg_seq
    /\ ret.args.segment_id \notin {s.id : s \in segments}
    /\ \E s \in segments, m \in Rows(word_mastery) :
          /\ s.content = ret.args.segment_content
          /\ s.id > ret.args.segment_id
          /\ m.segment_id = s.id
          /\ Learning(m) # Learning(ret.val)

\* the items outside (article_id, segment_type)
OtherItems(segs, article_id, segment_type) ==
    {s \in segs : s.article_id # article_id \/ s.segment_type # segment_type}

\* C39: save_segments(article, kind, ...), successful or not, leaves the
\* items of every other article and of the other kind of the same article,
\* and every word_mastery row under the id of such an item, as they were.
C39_ResegmentTouchesOneItemSet ==
    [][IsSave =>
        LET a == ret'.args.article_id
            k == ret'.args.segment_type
        IN /\ OtherItems(segments', a, k) = OtherItems(segments, a, k)
           /\ RowsOnItems(word_mastery', OtherItems(segments', a, k))
                 = RowsOnItems(word_mastery, OtherItems(segments, a, k))]_vars

\* the sentences of article 1 have been replaced while a word of it has a practised row
C39_Witness ==
    /\ ret.op = "save_segments" /\ ret.ok
    /\ ret.args.segment_type = "sentence" /\ ret.args.segments = <<"a">>
    /\ \E s \in segments, m \in Rows(word_mastery) :
          /\ s.article_id = ret.args.article_id /\ s.segment_type = "word" /\ s.content = "a"
          /\ m.segment_id = s.id /\ m.review_count = 1
    /\ \A m \in Rows(word_mastery) : m.segment_type = "word"

====
